---- MODULE Spec2Model ----
(***************************************************************************)
(* Model of the domain messages OfferMessage, RequestMessage and           *)
(* ResourceForecastPowerMessage: the life of one message object, from its  *)
(* construction (directly or through from_json) through any sequence of    *)
(* calls of its property setters, its __eq__ and its JSON conversion.      *)
(*                                                                         *)
(* Python values are tagged records.  A str is the sequence of its         *)
(* characters, so that list(str) and the parsing done by float(str) and    *)
(* int(str) are computed, not assumed.  A float is carried as a count of   *)
(* halves (3.5 is 7 halves), which is exact for every number used here.    *)
(***************************************************************************)
EXTENDS Integers, Sequences, FiniteSets, TLC

VARIABLES msg, result

vars == <<msg, result>>

(***************************************************************************)
(* Bounds of the model.                                                    *)
(***************************************************************************)
\* the largest whole number among the OfferCount inputs
MaxCount == 1
\* the whole number of the quantity inputs (2 stands for 2.0)
MaxValue == 2
\* the longest customer id list among the inputs
MaxIds == 2

(***************************************************************************)
(* Python values.                                                          *)
(***************************************************************************)
None == [t |-> "None"]
\* an attribute that was never assigned (reading it is an AttributeError)
Unset == [t |-> "unset"]
PyInt(n) == [t |-> "int", n |-> n]
PyFloat(h) == [t |-> "float", h |-> h]
PyStr(s) == [t |-> "str", s |-> s]
PyList(xs) == [t |-> "list", items |-> xs]
PyTuple(xs) == [t |-> "tuple", items |-> xs]
\* the JSON object form of a quantity: {"Value": v, "UnitOfMeasure": u}
PyDict(v, u) == [t |-> "dict", Value |-> v, UnitOfMeasure |-> u]
QuantityBlock(h, u) == [t |-> "QuantityBlock", value |-> h, unit_of_measure |-> u]
ValueArrayBlock(vs, u) == [values |-> vs, unit_of_measure |-> u]
TimeSeriesBlock(ti, ser) == [t |-> "TimeSeriesBlock", time_index |-> ti, series |-> ser]
\* the JSON object form of a time series block
PyTimeSeriesDict(ti, ser) == [t |-> "tsdict", TimeIndex |-> ti, Series |-> ser]
\* a datetime.datetime object, named by its ISO 8601 rendering
PyDatetime(iso) == [t |-> "datetime", iso |-> iso]

isinstance(v, types) == v.t \in types

(***************************************************************************)
(* str literals used by the code and by the inputs.                        *)
(***************************************************************************)
upregulation == <<"u","p","r","e","g","u","l","a","t","i","o","n">>
downregulation == <<"d","o","w","n","r","e","g","u","l","a","t","i","o","n">>

(***************************************************************************)
(* float(x), int(x), float.is_integer and "{:s}".format(x) of Python.      *)
(* A conversion yields [exc |-> "none", v |-> value] or the exception it   *)
(* raises.  The literals parsed are sign, digits and an optional fraction; *)
(* every fraction among the inputs is .0 or .5 (the halves grid).          *)
(***************************************************************************)
DigitChars == {"0","1","2","3","4","5","6","7","8","9"}

DigitValue(c) ==
    CASE c = "0" -> 0 [] c = "1" -> 1 [] c = "2" -> 2 [] c = "3" -> 3
      [] c = "4" -> 4 [] c = "5" -> 5 [] c = "6" -> 6 [] c = "7" -> 7
      [] c = "8" -> 8 [] c = "9" -> 9

RECURSIVE DigitsValue(_)
DigitsValue(s) ==
    IF s = << >> THEN 0
    ELSE 10 * DigitsValue(SubSeq(s, 1, Len(s) - 1)) + DigitValue(s[Len(s)])

IsDigits(s) == Len(s) > 0 /\ \A i \in 1..Len(s) : s[i] \in DigitChars

Unsigned(s) == IF Len(s) > 0 /\ s[1] \in {"-", "+"} THEN Tail(s) ELSE s

SignOf(s) == IF Len(s) > 0 /\ s[1] = "-" THEN -1 ELSE 1

IsIntLiteral(s) == IsDigits(Unsigned(s))

DotPositions(s) == {i \in 1..Len(s) : s[i] = "."}

IsFloatLiteral(s) ==
    LET u == Unsigned(s) IN
    \/ IsDigits(u)
    \/ /\ Cardinality(DotPositions(u)) = 1
       /\ LET d == CHOOSE i \in DotPositions(u) : TRUE IN
          /\ IsDigits(SubSeq(u, 1, d - 1))
          /\ IsDigits(SubSeq(u, d + 1, Len(u)))

\* the value of a float literal, in halves
FloatLiteralHalves(s) ==
    LET u == Unsigned(s) IN
    IF IsDigits(u) THEN SignOf(s) * 2 * DigitsValue(u)
    ELSE LET d == CHOOSE i \in DotPositions(u) : TRUE IN
         SignOf(s) * (2 * DigitsValue(SubSeq(u, 1, d - 1))
                      + (IF u[d + 1] = "5" THEN 1 ELSE 0))

Ok(v) == [exc |-> "none", v |-> v]
Raise(e) == [exc |-> e, v |-> None]

\* float(x): the value in halves
float(x) ==
    CASE x.t = "int" -> Ok(2 * x.n)
      [] x.t = "float" -> Ok(x.h)
      [] x.t = "str" -> IF IsFloatLiteral(x.s) THEN Ok(FloatLiteralHalves(x.s))
                        ELSE Raise("ValueError")
      [] OTHER -> Raise("TypeError")

\* truncation toward zero of a number of halves
Trunc(h) == IF h >= 0 THEN h \div 2 ELSE -((-h) \div 2)

\* int(x)
int(x) ==
    CASE x.t = "int" -> Ok(x.n)
      [] x.t = "float" -> Ok(Trunc(x.h))
      [] x.t = "str" -> IF IsIntLiteral(x.s) THEN Ok(SignOf(x.s) * DigitsValue(Unsigned(x.s)))
                        ELSE Raise("ValueError")
      [] OTHER -> Raise("TypeError")

\* float.is_integer, on a number of halves
is_integer(h) == h % 2 = 0

\* "'{:s}' ...".format(x): the format code s is defined for str alone
format_s(x) ==
    CASE x.t = "str" -> Ok(0)
      [] x.t \in {"int", "float"} -> Raise("ValueError")
      [] OTHER -> Raise("TypeError")

\* list(x) of a str, list or tuple
list(x) ==
    IF x.t = "str" THEN PyList([i \in 1..Len(x.s) |-> PyStr(<<x.s[i]>>)])
    ELSE PyList(x.items)

\* len(x) of a str, list or tuple
len(x) == IF x.t = "str" THEN Len(x.s) ELSE Len(x.items)

(***************************************************************************)
(* The helpers the three classes inherit from AbstractResultMessage.       *)
(***************************************************************************)
\* the one timestamp literal of the inputs, in ISO 8601 form
iso1 == <<"2","0","2","0","-","0","1","-","0","1","T","0","0",":","0","0",":","0","0","Z">>

\* AbstractMessage._check_datetime
_check_datetime(value) ==
    \/ isinstance(value, {"datetime"})
    \/ isinstance(value, {"str"}) /\ value.s = iso1

\* tools.datetime_tools.to_iso_format_datetime_string
to_iso_format_datetime_string(value) ==
    IF isinstance(value, {"datetime"}) THEN PyStr(value.iso) ELSE value

\* AbstractMessage._check_quantity_block with the float_value_check
\* (lambda value: value >= 0.0) that every caller passes
_check_quantity_block(value, unit, can_be_none) ==
    CASE value.t = "None" -> can_be_none
      [] value.t = "QuantityBlock" ->
            value.unit_of_measure = unit /\ value.value >= 0
      [] value.t = "dict" ->
            /\ value.UnitOfMeasure = unit
            /\ float(value.Value).exc = "none"
            /\ float(value.Value).v >= 0
      [] OTHER -> float(value).exc = "none" /\ float(value).v >= 0

\* AbstractMessage._set_quantity_block_value: self with the attribute set
_set_quantity_block_value(self, units, message_attribute, quantity_value) ==
    CASE quantity_value.t = "None" ->
            [self EXCEPT ![message_attribute] = None]
      [] quantity_value.t = "QuantityBlock" ->
            [self EXCEPT ![message_attribute] = quantity_value]
      [] quantity_value.t = "dict" ->
            [self EXCEPT ![message_attribute] =
                QuantityBlock(float(quantity_value.Value).v, quantity_value.UnitOfMeasure)]
      [] OTHER ->
            [self EXCEPT ![message_attribute] =
                QuantityBlock(float(quantity_value).v, units[message_attribute])]

\* a time series block built from its JSON object form
TimeSeriesFromJson(value) == TimeSeriesBlock(value.TimeIndex, value.Series)

\* every series is as long as the time index
SeriesAligned(block) ==
    \A name \in DOMAIN block.series :
        Len(block.series[name].values) = Len(block.time_index)

\* AbstractMessage._check_timeseries_block, before its block_check
_check_timeseries_block(value, can_be_none) ==
    CASE value.t = "None" -> can_be_none
      [] value.t = "TimeSeriesBlock" -> SeriesAligned(value)
      [] value.t = "tsdict" -> SeriesAligned(TimeSeriesFromJson(value))
      [] OTHER -> FALSE

\* the block a time series input stands for
AsTimeSeriesBlock(value) ==
    IF value.t = "tsdict" THEN TimeSeriesFromJson(value) ELSE value

\* AbstractMessage._set_timeseries_block_value: self with the attribute set
_set_timeseries_block_value(self, message_attribute, value) ==
    [self EXCEPT ![message_attribute] = AsTimeSeriesBlock(value)]

\* the envelope (Type, SimulationId, SourceProcessId, MessageId, Timestamp,
\* EpochNumber, TriggeringMessageIds) as one value; "bad" fails its setters
Envelope(id) == [t |-> "envelope", id |-> id]

EnvelopeValues == {Envelope("env1"), Envelope("env2")}

_check_envelope(value) == value \in EnvelopeValues

(***************************************************************************)
(* OfferMessage.  A message object is a record of its attributes; a setter *)
(* yields Ok(the object after the assignment) or the exception it raises.  *)
(***************************************************************************)
Offer_ALLOWED_DIRECTION_VALUES == {upregulation, downregulation}

Offer_ALLOWED_PRICE_UNITS == <<"{EUR}/(kW.h)", "{EUR}/(MW.h)">>

Offer_REAL_POWER_UNIT == "kW"

Offer_QUANTITY_BLOCK_ATTRIBUTES == [Duration |-> "Minute", Price |-> "{EUR}/(kW.h)"]

Offer_MESSAGE_ATTRIBUTES ==
    <<"ActivationTime", "Duration", "Direction", "RealPower", "Price",
      "CongestionId", "OfferId", "OfferCount">>

Offer_OPTIONAL_ATTRIBUTES == {}

Offer_check_activation_time(activation_time) == _check_datetime(activation_time)

Offer_activation_time(self, activation_time) ==
    IF Offer_check_activation_time(activation_time)
       /\ isinstance(to_iso_format_datetime_string(activation_time), {"str"})
    THEN Ok([self EXCEPT !.ActivationTime = to_iso_format_datetime_string(activation_time)])
    ELSE Raise("MessageDateError")

Offer_check_duration(duration) ==
    _check_quantity_block(duration, Offer_QUANTITY_BLOCK_ATTRIBUTES["Duration"], FALSE)

Offer_duration(self, duration) ==
    LET d == IF duration.t = "int" THEN PyFloat(float(duration).v) ELSE duration IN
    IF Offer_check_duration(d)
    THEN Ok(_set_quantity_block_value(self, Offer_QUANTITY_BLOCK_ATTRIBUTES, "Duration", d))
    ELSE Raise("MessageValueError")

\* Offer_check_direction without the membership test
Offer_check_direction_any_str(direction) == isinstance(direction, {"str"})

Offer_check_direction(direction) ==
    isinstance(direction, {"str"}) /\ direction.s \in Offer_ALLOWED_DIRECTION_VALUES

Offer_direction(self, direction) ==
    IF Offer_check_direction(direction)
    THEN Ok([self EXCEPT !.Direction = direction])
    ELSE Raise("MessageValueError")

Offer_check_real_power_block(real_power_block) ==
    /\ ~(Cardinality(DOMAIN real_power_block.series) < 1
         \/ Len(real_power_block.time_index) < 1)
    /\ \A name \in DOMAIN real_power_block.series :
          real_power_block.series[name].unit_of_measure = Offer_REAL_POWER_UNIT

Offer_check_real_power(real_power) ==
    /\ _check_timeseries_block(real_power, FALSE)
    /\ Offer_check_real_power_block(AsTimeSeriesBlock(real_power))

Offer_real_power(self, real_power) ==
    IF Offer_check_real_power(real_power)
    THEN Ok(_set_timeseries_block_value(self, "RealPower", real_power))
    ELSE Raise("MessageValueError")

Offer_check_price(price) ==
    IF isinstance(price, {"QuantityBlock"})
    THEN IF price.unit_of_measure \notin {Offer_ALLOWED_PRICE_UNITS[i] : i \in 1..2}
         THEN FALSE
         ELSE _check_quantity_block(PyFloat(price.value), price.unit_of_measure, FALSE)
    ELSE _check_quantity_block(price, Offer_ALLOWED_PRICE_UNITS[1], FALSE)

\* Offer_price giving a bare number the unit already stored
Offer_price_keeping_unit(self, price) ==
    LET p == IF price.t = "int" THEN PyFloat(float(price).v) ELSE price IN
    IF Offer_check_price(p)
    THEN LET set == _set_quantity_block_value(self, Offer_QUANTITY_BLOCK_ATTRIBUTES, "Price", p) IN
         IF isinstance(p, {"QuantityBlock"})
         THEN Ok([set EXCEPT !.Price.unit_of_measure = p.unit_of_measure])
         ELSE IF self.Price.t = "QuantityBlock"
         THEN Ok([set EXCEPT !.Price.unit_of_measure = self.Price.unit_of_measure])
         ELSE Ok(set)
    ELSE Raise("MessageValueError")

Offer_price(self, price) ==
    LET p == IF price.t = "int" THEN PyFloat(float(price).v) ELSE price IN
    IF Offer_check_price(p)
    THEN LET set == _set_quantity_block_value(self, Offer_QUANTITY_BLOCK_ATTRIBUTES, "Price", p) IN
         IF isinstance(p, {"QuantityBlock"})
         THEN Ok([set EXCEPT !.Price.unit_of_measure = p.unit_of_measure])
         ELSE Ok(set)
    ELSE Raise("MessageValueError")

Offer_check_congestion_id(congestion_id) ==
    isinstance(congestion_id, {"str"}) /\ len(congestion_id) > 0

Offer_congestion_id(self, congestion_id) ==
    IF Offer_check_congestion_id(congestion_id)
    THEN Ok([self EXCEPT !.CongestionId = congestion_id])
    ELSE Raise("MessageValueError")

Offer_check_offer_id(offer_id) ==
    isinstance(offer_id, {"str"}) /\ len(offer_id) > 0

Offer_offer_id(self, offer_id) ==
    IF Offer_check_offer_id(offer_id)
    THEN Ok([self EXCEPT !.OfferId = offer_id])
    ELSE Raise("MessageValueError")

\* yields Ok(TRUE), Ok(FALSE) or the exception float() or int() raises
Offer_check_offer_count(offer_count) ==
    IF offer_count.t = "None" \/ ~isinstance(offer_count, {"str", "float", "int"})
    THEN Ok(FALSE)
    ELSE IF float(offer_count).exc # "none" THEN Raise(float(offer_count).exc)
    ELSE IF ~is_integer(float(offer_count).v) THEN Ok(FALSE)
    ELSE IF int(offer_count).exc # "none" THEN Raise(int(offer_count).exc)
    ELSE Ok(int(offer_count).v >= 0)

Offer_offer_count(self, offer_count) ==
    LET c == Offer_check_offer_count(offer_count) IN
    IF c.exc # "none" THEN Raise(c.exc)
    ELSE IF c.v THEN Ok([self EXCEPT !.OfferCount = PyInt(int(offer_count).v)])
    ELSE IF format_s(offer_count).exc # "none" THEN Raise(format_s(offer_count).exc)
    ELSE Raise("MessageValueError")

(***************************************************************************)
(* RequestMessage.                                                         *)
(***************************************************************************)
Request_ALLOWED_DIRECTION_VALUES == {upregulation, downregulation}

Request_QUANTITY_BLOCK_ATTRIBUTES ==
    [Duration |-> "Minute", RealPowerMin |-> "kW", RealPowerRequest |-> "kW",
     BidResolution |-> "kW"]

Request_MESSAGE_ATTRIBUTES ==
    <<"ActivationTime", "Duration", "Direction", "RealPowerMin", "RealPowerRequest",
      "CustomerIds", "CongestionId", "BidResolution">>

Request_OPTIONAL_ATTRIBUTES == {"BidResolution"}

Request_check_activation_time(activation_time) == _check_datetime(activation_time)

Request_activation_time(self, activation_time) ==
    IF Request_check_activation_time(activation_time)
       /\ isinstance(to_iso_format_datetime_string(activation_time), {"str"})
    THEN Ok([self EXCEPT !.ActivationTime = to_iso_format_datetime_string(activation_time)])
    ELSE Raise("MessageDateError")

Request_check_duration(duration) ==
    _check_quantity_block(duration, Request_QUANTITY_BLOCK_ATTRIBUTES["Duration"], FALSE)

Request_duration(self, duration) ==
    IF Request_check_duration(duration)
    THEN Ok(_set_quantity_block_value(self, Request_QUANTITY_BLOCK_ATTRIBUTES, "Duration", duration))
    ELSE Raise("MessageValueError")

Request_check_direction(direction) ==
    isinstance(direction, {"str"}) /\ direction.s \in Request_ALLOWED_DIRECTION_VALUES

Request_direction(self, direction) ==
    IF Request_check_direction(direction)
    THEN Ok([self EXCEPT !.Direction = direction])
    ELSE Raise("MessageValueError")

Request_check_real_power_min(real_power_min) ==
    _check_quantity_block(real_power_min,
                          Request_QUANTITY_BLOCK_ATTRIBUTES["RealPowerMin"], FALSE)

Request_real_power_min(self, real_power_min) ==
    IF Request_check_real_power_min(real_power_min)
    THEN Ok(_set_quantity_block_value(self, Request_QUANTITY_BLOCK_ATTRIBUTES,
                                      "RealPowerMin", real_power_min))
    ELSE Raise("MessageValueError")

Request_check_real_power_request(real_power_request) ==
    _check_quantity_block(real_power_request,
                          Request_QUANTITY_BLOCK_ATTRIBUTES["RealPowerRequest"], FALSE)

\* a setter of RealPowerRequest that stores the quantity under RealPowerMin
Request_real_power_request_as_real_power_min(self, real_power_request) ==
    IF Request_check_real_power_request(real_power_request)
    THEN Ok(_set_quantity_block_value(self, Request_QUANTITY_BLOCK_ATTRIBUTES,
                                      "RealPowerMin", real_power_request))
    ELSE Raise("MessageValueError")

Request_real_power_request(self, real_power_request) ==
    IF Request_check_real_power_request(real_power_request)
    THEN Ok(_set_quantity_block_value(self, Request_QUANTITY_BLOCK_ATTRIBUTES,
                                      "RealPowerRequest", real_power_request))
    ELSE Raise("MessageValueError")

Request_check_customer_ids(customer_ids) ==
    IF \/ customer_ids.t = "None"
       \/ ~isinstance(customer_ids, {"str", "list", "tuple"})
       \/ len(customer_ids) = 0
    THEN FALSE
    ELSE IF ~isinstance(customer_ids, {"str"})
         THEN \A i \in 1..Len(customer_ids.items) :
                 isinstance(customer_ids.items[i], {"str"})
         ELSE TRUE

\* the last statement builds a MessageValueError and does not raise it: the
\* setter returns normally, the attribute as it was
Request_customer_ids(self, customer_ids) ==
    IF Request_check_customer_ids(customer_ids)
    THEN Ok([self EXCEPT !.CustomerIds = list(customer_ids)])
    ELSE Ok(self)

Request_check_congestion_id(congestion_id) == isinstance(congestion_id, {"str"})

Request_congestion_id(self, congestion_id) ==
    IF Request_check_congestion_id(congestion_id)
    THEN Ok([self EXCEPT !.CongestionId = congestion_id])
    ELSE Raise("MessageValueError")

\* a check of BidResolution that takes no None
Request_check_bid_resolution_required(bid_resolution) ==
    _check_quantity_block(bid_resolution,
                          Request_QUANTITY_BLOCK_ATTRIBUTES["BidResolution"], FALSE)

Request_check_bid_resolution(bid_resolution) ==
    \/ bid_resolution.t = "None"
    \/ _check_quantity_block(bid_resolution,
                             Request_QUANTITY_BLOCK_ATTRIBUTES["BidResolution"], TRUE)

Request_bid_resolution(self, bid_resolution) ==
    IF Request_check_bid_resolution(bid_resolution)
    THEN IF bid_resolution.t = "None"
         THEN Ok([self EXCEPT !.BidResolution = None])
         ELSE Ok(_set_quantity_block_value(self, Request_QUANTITY_BLOCK_ATTRIBUTES,
                                           "BidResolution", bid_resolution))
    ELSE Raise("MessageValueError")

(***************************************************************************)
(* ResourceForecastPowerMessage.                                           *)
(***************************************************************************)
Forecast_REAL_POWER_SERIES_NAMES == <<"RealPower">>

Forecast_REAL_POWER_SERIES_UNIT == "kW"

Forecast_MESSAGE_ATTRIBUTES == <<"Forecast", "ResourceName">>

Forecast_OPTIONAL_ATTRIBUTES == {}

Forecast_check_resource_name(resource_name) == isinstance(resource_name, {"str"})

Forecast_resource_name(self, resource_name) ==
    IF Forecast_check_resource_name(resource_name)
    THEN Ok([self EXCEPT !.ResourceName = resource_name])
    ELSE Raise("MessageValueError")

\* a block check that asks for one series of 3 values in kW, whatever its name
Forecast_check_real_power_block_any_name(real_power_block) ==
    /\ ~(Cardinality(DOMAIN real_power_block.series) # 1
         \/ Len(real_power_block.time_index) < 3)
    /\ \A name \in DOMAIN real_power_block.series :
          ~(real_power_block.series[name].unit_of_measure # Forecast_REAL_POWER_SERIES_UNIT
            \/ Len(real_power_block.series[name].values) < 3)

Forecast_check_real_power_block(real_power_block) ==
    /\ ~(Cardinality(DOMAIN real_power_block.series) # 1
         \/ Len(real_power_block.time_index) < 3)
    /\ \A i \in 1..Len(Forecast_REAL_POWER_SERIES_NAMES) :
          LET real_power_series_name == Forecast_REAL_POWER_SERIES_NAMES[i] IN
          /\ real_power_series_name \in DOMAIN real_power_block.series
          /\ LET current_series == real_power_block.series[real_power_series_name] IN
             ~(current_series.unit_of_measure # Forecast_REAL_POWER_SERIES_UNIT
               \/ Len(current_series.values) < 3)

Forecast_check_real_power(real_power) ==
    /\ _check_timeseries_block(real_power, FALSE)
    /\ Forecast_check_real_power_block(AsTimeSeriesBlock(real_power))

Forecast_real_power(self, real_power) ==
    IF Forecast_check_real_power(real_power)
    THEN Ok(_set_timeseries_block_value(self, "Forecast", real_power))
    ELSE Raise("MessageValueError")

(***************************************************************************)
(* Attribute assignment by name, as AbstractMessage.__init__ and           *)
(* validate_json do it through setattr and getattr.                        *)
(***************************************************************************)
\* a key that a keyword or JSON mapping does not hold
Missing == [t |-> "missing"]

\* kwargs.get(name, None)
get(mapping, name) == IF mapping[name] = Missing THEN None ELSE mapping[name]

\* the setters of the envelope attributes
set_envelope(self, value) ==
    IF _check_envelope(value) THEN Ok([self EXCEPT !.envelope = value])
    ELSE Raise("MessageError")

Offer_setattr(self, name, value) ==
    CASE name = "ActivationTime" -> Offer_activation_time(self, value)
      [] name = "Duration" -> Offer_duration(self, value)
      [] name = "Direction" -> Offer_direction(self, value)
      [] name = "RealPower" -> Offer_real_power(self, value)
      [] name = "Price" -> Offer_price(self, value)
      [] name = "CongestionId" -> Offer_congestion_id(self, value)
      [] name = "OfferId" -> Offer_offer_id(self, value)
      [] name = "OfferCount" -> Offer_offer_count(self, value)

Request_setattr(self, name, value) ==
    CASE name = "ActivationTime" -> Request_activation_time(self, value)
      [] name = "Duration" -> Request_duration(self, value)
      [] name = "Direction" -> Request_direction(self, value)
      [] name = "RealPowerMin" -> Request_real_power_min(self, value)
      [] name = "RealPowerRequest" -> Request_real_power_request(self, value)
      [] name = "CustomerIds" -> Request_customer_ids(self, value)
      [] name = "CongestionId" -> Request_congestion_id(self, value)
      [] name = "BidResolution" -> Request_bid_resolution(self, value)

Forecast_setattr(self, name, value) ==
    CASE name = "Forecast" -> Forecast_real_power(self, value)
      [] name = "ResourceName" -> Forecast_resource_name(self, value)

setattr(self, name, value) ==
    CASE name = "envelope" -> set_envelope(self, value)
      [] name # "envelope" /\ self.t = "OfferMessage" -> Offer_setattr(self, name, value)
      [] name # "envelope" /\ self.t = "RequestMessage" -> Request_setattr(self, name, value)
      [] name # "envelope" /\ self.t = "ResourceForecastPowerMessage" ->
            Forecast_setattr(self, name, value)

\* getattr(cls, "_check_" + attribute)(value): Ok(TRUE), Ok(FALSE) or an exception
check(cls, name, value) ==
    CASE name = "envelope" -> Ok(_check_envelope(value))
      [] cls = "OfferMessage" /\ name = "ActivationTime" -> Ok(Offer_check_activation_time(value))
      [] cls = "OfferMessage" /\ name = "Duration" -> Ok(Offer_check_duration(value))
      [] cls = "OfferMessage" /\ name = "Direction" -> Ok(Offer_check_direction(value))
      [] cls = "OfferMessage" /\ name = "RealPower" -> Ok(Offer_check_real_power(value))
      [] cls = "OfferMessage" /\ name = "Price" -> Ok(Offer_check_price(value))
      [] cls = "OfferMessage" /\ name = "CongestionId" -> Ok(Offer_check_congestion_id(value))
      [] cls = "OfferMessage" /\ name = "OfferId" -> Ok(Offer_check_offer_id(value))
      [] cls = "OfferMessage" /\ name = "OfferCount" -> Offer_check_offer_count(value)
      [] cls = "RequestMessage" /\ name = "ActivationTime" -> Ok(Request_check_activation_time(value))
      [] cls = "RequestMessage" /\ name = "Duration" -> Ok(Request_check_duration(value))
      [] cls = "RequestMessage" /\ name = "Direction" -> Ok(Request_check_direction(value))
      [] cls = "RequestMessage" /\ name = "RealPowerMin" -> Ok(Request_check_real_power_min(value))
      [] cls = "RequestMessage" /\ name = "RealPowerRequest" ->
            Ok(Request_check_real_power_request(value))
      [] cls = "RequestMessage" /\ name = "CustomerIds" -> Ok(Request_check_customer_ids(value))
      [] cls = "RequestMessage" /\ name = "CongestionId" -> Ok(Request_check_congestion_id(value))
      [] cls = "RequestMessage" /\ name = "BidResolution" -> Ok(Request_check_bid_resolution(value))
      [] cls = "ResourceForecastPowerMessage" /\ name = "Forecast" ->
            Ok(Forecast_check_real_power(value))
      [] cls = "ResourceForecastPowerMessage" /\ name = "ResourceName" ->
            Ok(Forecast_check_resource_name(value))

Classes == {"OfferMessage", "RequestMessage", "ResourceForecastPowerMessage"}

MESSAGE_ATTRIBUTES(cls) ==
    CASE cls = "OfferMessage" -> Offer_MESSAGE_ATTRIBUTES
      [] cls = "RequestMessage" -> Request_MESSAGE_ATTRIBUTES
      [] cls = "ResourceForecastPowerMessage" -> Forecast_MESSAGE_ATTRIBUTES

\* the envelope attributes first, then the attributes of the class
MESSAGE_ATTRIBUTES_FULL(cls) == <<"envelope">> \o MESSAGE_ATTRIBUTES(cls)

OPTIONAL_ATTRIBUTES_FULL(cls) ==
    CASE cls = "OfferMessage" -> Offer_OPTIONAL_ATTRIBUTES
      [] cls = "RequestMessage" -> Request_OPTIONAL_ATTRIBUTES
      [] cls = "ResourceForecastPowerMessage" -> Forecast_OPTIONAL_ATTRIBUTES

AttributeNames(cls) ==
    {MESSAGE_ATTRIBUTES_FULL(cls)[i] : i \in 1..Len(MESSAGE_ATTRIBUTES_FULL(cls))}

\* an object before __init__ has assigned anything
NewObject(cls) == [a \in AttributeNames(cls) \cup {"t"} |-> IF a = "t" THEN cls ELSE Unset]

(***************************************************************************)
(* Construction, validation, equality and JSON conversion.                 *)
(***************************************************************************)
\* AbstractMessage.__init__: every attribute of MESSAGE_ATTRIBUTES_FULL is
\* assigned through its setter, in order; the first exception ends it
RECURSIVE SetAll(_, _, _)
SetAll(self, names, kwargs) ==
    IF names = << >> THEN Ok(self)
    ELSE \* r is bound to the value the setter yields
         LET r == CHOOSE x \in {setattr(self, Head(names), get(kwargs, Head(names)))} : TRUE IN
         IF r.exc # "none" THEN r ELSE SetAll(r.v, Tail(names), kwargs)

__init__(cls, kwargs) == SetAll(NewObject(cls), MESSAGE_ATTRIBUTES_FULL(cls), kwargs)

\* AbstractMessage.validate_json: Ok(TRUE), Ok(FALSE) or the exception of a checker
RECURSIVE ValidateAll(_, _, _)
ValidateAll(cls, names, json_message) ==
    IF names = << >> THEN Ok(TRUE)
    ELSE IF json_message[Head(names)] = Missing
            /\ Head(names) \notin OPTIONAL_ATTRIBUTES_FULL(cls)
    THEN Ok(FALSE)
    ELSE LET c == check(cls, Head(names), get(json_message, Head(names))) IN
         IF c.exc # "none" THEN c
         ELSE IF ~c.v THEN Ok(FALSE)
         ELSE ValidateAll(cls, Tail(names), json_message)

validate_json(cls, json_message) ==
    ValidateAll(cls, MESSAGE_ATTRIBUTES_FULL(cls), json_message)

\* from_json of the three classes: Ok(the object), Ok(None) or an exception
from_json(cls, json_message) ==
    LET valid == validate_json(cls, json_message) IN
    IF valid.exc # "none" THEN valid
    ELSE IF valid.v THEN __init__(cls, json_message)
    ELSE Ok(None)

\* the discriminator each class declares
CLASS_MESSAGE_TYPE(cls) ==
    CASE cls = "OfferMessage" -> "Offer"
      [] cls = "RequestMessage" -> "Request"
      [] cls = "ResourceForecastPowerMessage" -> "ResourceForecast.Power"

\* the registry after register_to_factory() of the three classes
MESSAGE_TYPES ==
    [type \in {CLASS_MESSAGE_TYPE(cls) : cls \in Classes} |->
        CHOOSE cls \in Classes : CLASS_MESSAGE_TYPE(cls) = type]

\* the registry's dispatch on Type: from_json of the registered class, or None
message_from_json(type, json_message) ==
    IF type \in DOMAIN MESSAGE_TYPES
    THEN from_json(MESSAGE_TYPES[type], json_message)
    ELSE Ok(None)

\* AbstractResultMessage.__eq__: the envelope attributes
AbstractResultMessage__eq__(self, other) == self.envelope = other.envelope

\* OfferMessage and RequestMessage define no __eq__ and inherit it
Offer__eq__(self, other) == AbstractResultMessage__eq__(self, other)

Request__eq__(self, other) == AbstractResultMessage__eq__(self, other)

Forecast__eq__(self, other) ==
    /\ AbstractResultMessage__eq__(self, other)
    /\ isinstance(other, {"ResourceForecastPowerMessage"})
    /\ self.ResourceName = other.ResourceName
    /\ self.Forecast = other.Forecast

__eq__(self, other) ==
    CASE self.t = "OfferMessage" -> Offer__eq__(self, other)
      [] self.t = "RequestMessage" -> Request__eq__(self, other)
      [] self.t = "ResourceForecastPowerMessage" -> Forecast__eq__(self, other)

\* the JSON form of one attribute value
JsonValue(value) ==
    CASE value.t = "QuantityBlock" -> PyDict(PyFloat(value.value), value.unit_of_measure)
      [] value.t = "TimeSeriesBlock" -> PyTimeSeriesDict(value.time_index, value.series)
      [] OTHER -> value

\* AbstractMessage.json: an optional attribute that is None is left out;
\* reading an attribute that was never assigned is an AttributeError
to_json(self) ==
    IF \E a \in AttributeNames(self.t) : self[a] = Unset
    THEN Raise("AttributeError")
    ELSE Ok([a \in AttributeNames(self.t) |->
                IF a = "envelope" THEN self[a]
                ELSE IF a \in OPTIONAL_ATTRIBUTES_FULL(self.t) /\ self[a] = None THEN Missing
                ELSE JsonValue(self[a])])

(***************************************************************************)
(* The inputs: the values a caller passes to a setter, to the constructor  *)
(* or, in a JSON mapping, to from_json.                                    *)
(***************************************************************************)
\* the digit character of n
DigitChar(n) == CHOOSE d \in DigitChars : DigitValue(d) = n

\* quantities for an attribute of unit U; W is another unit
QuantityInputs(U, W) ==
    {PyFloat(0), PyFloat(2 * MaxValue), PyFloat(-2), PyInt(MaxValue),
     PyStr(<<DigitChar(MaxValue)>>), PyStr(<<"a", "b", "c">>), None,
     QuantityBlock(2 * MaxValue, U), QuantityBlock(2 * MaxValue, W), QuantityBlock(-2, U),
     PyDict(PyFloat(2 * MaxValue), U), PyDict(PyFloat(2 * MaxValue), W),
     PyDict(PyFloat(-2), U)}

\* the same with one accepted magnitude
FewQuantityInputs(U, W) ==
    {PyFloat(2 * MaxValue), PyInt(MaxValue), PyFloat(-2), None,
     QuantityBlock(2 * MaxValue, U), QuantityBlock(2 * MaxValue, W),
     PyDict(PyFloat(2 * MaxValue), U), PyDict(PyFloat(2 * MaxValue), W)}

PriceInputs ==
    QuantityInputs("{EUR}/(kW.h)", "{EUR}/(MW.h)")
    \cup {QuantityBlock(-2, "{EUR}/(MW.h)"), QuantityBlock(2 * MaxValue, "EUR"),
          PyDict(PyFloat(2 * MaxValue), "EUR")}

\* BidResolution: None, quantities in kW and MW, negative ones in every form
BidResolutionInputs ==
    FewQuantityInputs("kW", "MW")
    \cup {QuantityBlock(-2, "kW"), PyDict(PyFloat(-2), "kW")}

DirectionInputs ==
    {PyStr(upregulation), PyStr(downregulation),
     PyStr(<<"U","p","r","e","g","u","l","a","t","i","o","n">>),
     PyStr(<<"u","p">>), PyStr(<< >>), None, PyInt(1),
     PyList(<<PyStr(upregulation)>>)}

TimeInputs == {PyStr(iso1), PyDatetime(iso1), PyStr(<<"n","o","w">>), None}

IdInputs == {PyStr(<<"i","d","1">>), PyStr(<< >>), None, PyInt(1)}

OfferCountInputs ==
    {PyInt(n) : n \in -1..MaxCount}
    \cup {PyFloat(h) : h \in -2..(2 * MaxCount + 1)}
    \cup {PyStr(<<"3">>), PyStr(<<"3", ".", "0">>), PyStr(<<"3", ".", "5">>),
          PyStr(<<"-", "1">>), PyStr(<<"a", "b", "c">>), None}

\* the customer ids c1, c2, ...
CustomerId(i) == PyStr(<<"c", DigitChar(i)>>)

RECURSIVE IdLists(_)
IdLists(n) ==
    IF n = 0 THEN {<< >>}
    ELSE IdLists(n - 1)
         \cup {Append(xs, CustomerId(i)) : xs \in {ys \in IdLists(n - 1) : Len(ys) = n - 1},
                                            i \in 1..2}

CustomerIdsInputs ==
    {PyList(xs) : xs \in IdLists(MaxIds)}
    \cup {PyTuple(<<CustomerId(1), CustomerId(2)>>), PyList(<<CustomerId(1), PyInt(1)>>),
          CustomerId(1), PyStr(<<"c">>), PyStr(<< >>), None, PyInt(1)}

\* successive timestamps and values of a series of length n
TimeIndex(n) == [i \in 1..n |-> i]
Values(n) == [i \in 1..n |-> 2 * i]
OneSeries(name, n, unit) == [x \in {name} |-> ValueArrayBlock(Values(n), unit)]
TwoSeries(name1, name2, n, unit1, unit2) ==
    [x \in {name1, name2} |-> ValueArrayBlock(Values(n), IF x = name1 THEN unit1 ELSE unit2)]
NoSeries == [x \in {} |-> ValueArrayBlock(<< >>, "kW")]

RealPowerInputs ==
    {TimeSeriesBlock(TimeIndex(1), OneSeries("customer1", 1, "kW")),
     TimeSeriesBlock(TimeIndex(2), TwoSeries("customer1", "customer2", 2, "kW", "kW")),
     TimeSeriesBlock(TimeIndex(2), TwoSeries("customer1", "customer2", 2, "kW", "MW")),
     TimeSeriesBlock(TimeIndex(1), OneSeries("customer1", 1, "MW")),
     TimeSeriesBlock(TimeIndex(0), OneSeries("customer1", 0, "kW")),
     TimeSeriesBlock(TimeIndex(1), NoSeries),
     PyTimeSeriesDict(TimeIndex(1), OneSeries("customer1", 1, "kW")),
     PyTimeSeriesDict(TimeIndex(2), OneSeries("customer1", 1, "kW")),
     None}

ForecastInputs ==
    {TimeSeriesBlock(TimeIndex(n), OneSeries("RealPower", n, "kW")) : n \in 2..4}
    \cup {TimeSeriesBlock(TimeIndex(3), OneSeries("Power", 3, "kW")),
          TimeSeriesBlock(TimeIndex(3), OneSeries("RealPower", 3, "MW")),
          TimeSeriesBlock(TimeIndex(3), TwoSeries("RealPower", "Power", 3, "kW", "kW")),
          TimeSeriesBlock(TimeIndex(3), NoSeries),
          PyTimeSeriesDict(TimeIndex(3), OneSeries("RealPower", 3, "kW")),
          PyTimeSeriesDict(TimeIndex(3), OneSeries("RealPower", 2, "kW")),
          PyTimeSeriesDict(TimeIndex(2), OneSeries("RealPower", 2, "kW")),
          None}

EnvelopeInputs == EnvelopeValues \cup {Envelope("bad")}

\* the envelopes given to a construction: the example's and a bad one
ConstructEnvelopes == {Envelope("env1"), Envelope("bad")}

Inputs(cls, name) ==
    CASE name = "envelope" -> EnvelopeInputs
      [] name = "ActivationTime" -> TimeInputs
      [] name = "Direction" -> DirectionInputs
      [] name = "CongestionId" -> IdInputs
      [] name = "OfferId" -> IdInputs
      [] name = "ResourceName" -> IdInputs
      [] name = "OfferCount" -> OfferCountInputs
      [] name = "CustomerIds" -> CustomerIdsInputs
      [] name = "RealPower" -> RealPowerInputs
      [] name = "Forecast" -> ForecastInputs
      [] name = "Price" -> PriceInputs
      [] name = "Duration" -> FewQuantityInputs("Minute", "kW")
      [] name = "RealPowerMin" -> FewQuantityInputs("kW", "MW")
      [] name = "RealPowerRequest" -> QuantityInputs("kW", "MW")
      [] name = "BidResolution" -> BidResolutionInputs

\* the values that JSON can carry: no Python objects
JsonTypes == {"None", "int", "float", "str", "list", "dict", "tsdict", "envelope"}

JsonInputs(cls, name) ==
    IF name = "envelope" THEN ConstructEnvelopes
    ELSE {v \in Inputs(cls, name) : v.t \in JsonTypes} \cup {Missing}

(***************************************************************************)
(* The state: msg is the message object of the caller (None before a       *)
(* construction has succeeded), result is the outcome of the last call:    *)
(* its name, the attribute and the argument, the exception that came out   *)
(* of it ("none" when it returned) and the value returned.                 *)
(***************************************************************************)
\* the example message of each class, as keyword arguments or JSON
Example(cls) ==
    CASE cls = "OfferMessage" ->
            [envelope |-> Envelope("env1"), ActivationTime |-> PyStr(iso1),
             Duration |-> PyFloat(2 * MaxValue), Direction |-> PyStr(upregulation),
             RealPower |-> PyTimeSeriesDict(TimeIndex(1), OneSeries("customer1", 1, "kW")),
             Price |-> PyFloat(2 * MaxValue), CongestionId |-> PyStr(<<"i","d","1">>),
             OfferId |-> PyStr(<<"i","d","1">>), OfferCount |-> PyInt(1)]
      [] cls = "RequestMessage" ->
            [envelope |-> Envelope("env1"), ActivationTime |-> PyStr(iso1),
             Duration |-> PyFloat(2 * MaxValue), Direction |-> PyStr(upregulation),
             RealPowerMin |-> PyFloat(2 * MaxValue), RealPowerRequest |-> PyFloat(2 * MaxValue),
             CustomerIds |-> PyList(<<CustomerId(1), CustomerId(2)>>),
             CongestionId |-> PyStr(<<"i","d","1">>), BidResolution |-> Missing]
      [] cls = "ResourceForecastPowerMessage" ->
            [envelope |-> Envelope("env1"),
             Forecast |-> PyTimeSeriesDict(TimeIndex(3), OneSeries("RealPower", 3, "kW")),
             ResourceName |-> PyStr(<<"i","d","1">>)]

Outcome(call, attr, arg, exc, ret) ==
    [call |-> call, attr |-> attr, arg |-> arg, exc |-> exc, ret |-> ret]

\* cls(**kwargs): the example with one keyword replaced or left out
Construct ==
    /\ msg = None
    /\ \E cls \in Classes : \E name \in AttributeNames(cls) :
       \E v \in (IF name = "envelope" THEN ConstructEnvelopes
                  ELSE Inputs(cls, name) \cup {Missing}) :
       \E kwargs \in {[Example(cls) EXCEPT ![name] = v]} :
       \E r \in {__init__(cls, kwargs)} :
          /\ msg' = IF r.exc = "none" THEN r.v ELSE None
          /\ result' = Outcome("__init__", cls, kwargs, r.exc, None)

\* cls.from_json(json_message): the example with one key replaced or left out
FromJson ==
    /\ msg = None
    /\ \E cls \in Classes : \E name \in AttributeNames(cls) :
       \E v \in JsonInputs(cls, name) :
       \E json_message \in {[Example(cls) EXCEPT ![name] = v]} :
       \E r \in {from_json(cls, json_message)} :
          /\ msg' = IF r.exc = "none" THEN r.v ELSE None
          /\ result' = Outcome("from_json", cls, json_message, r.exc,
                               IF r.exc = "none" THEN r.v ELSE None)

\* a Type that no class registers
UnknownType == "Unknown"

\* the registry builds a message from a mapping of the given Type: the
\* example of a class (the registered one when the Type is known) with one
\* key replaced or left out
Dispatch ==
    /\ msg = None
    /\ \E type \in DOMAIN MESSAGE_TYPES \cup {UnknownType} :
       \E cls \in (IF type \in DOMAIN MESSAGE_TYPES THEN {MESSAGE_TYPES[type]} ELSE Classes) :
       \E name \in AttributeNames(cls) :
       \E v \in JsonInputs(cls, name) :
       \E json_message \in {[Example(cls) EXCEPT ![name] = v]} :
       \E r \in {message_from_json(type, json_message)} :
          /\ msg' = IF r.exc = "none" THEN r.v ELSE None
          /\ result' = Outcome("message_from_json", type, json_message, r.exc,
                               IF r.exc = "none" THEN r.v ELSE None)

\* msg.attribute = v: r is what the setter yields
Assign(name, v, yielded) ==
    \E r \in {yielded} :
       /\ msg' = IF r.exc = "none" THEN r.v ELSE msg
       /\ result' = Outcome("setattr", name, v, r.exc, None)

SetOfferActivationTime ==
    /\ msg.t = "OfferMessage"
    /\ \E v \in Inputs("OfferMessage", "ActivationTime") : Assign("ActivationTime", v, Offer_activation_time(msg, v))

SetOfferDuration ==
    /\ msg.t = "OfferMessage"
    /\ \E v \in Inputs("OfferMessage", "Duration") : Assign("Duration", v, Offer_duration(msg, v))

SetOfferDirection ==
    /\ msg.t = "OfferMessage"
    /\ \E v \in Inputs("OfferMessage", "Direction") : Assign("Direction", v, Offer_direction(msg, v))

SetOfferRealPower ==
    /\ msg.t = "OfferMessage"
    /\ \E v \in Inputs("OfferMessage", "RealPower") : Assign("RealPower", v, Offer_real_power(msg, v))

SetOfferPrice ==
    /\ msg.t = "OfferMessage"
    /\ \E v \in Inputs("OfferMessage", "Price") : Assign("Price", v, Offer_price(msg, v))

SetOfferCongestionId ==
    /\ msg.t = "OfferMessage"
    /\ \E v \in Inputs("OfferMessage", "CongestionId") : Assign("CongestionId", v, Offer_congestion_id(msg, v))

SetOfferOfferId ==
    /\ msg.t = "OfferMessage"
    /\ \E v \in Inputs("OfferMessage", "OfferId") : Assign("OfferId", v, Offer_offer_id(msg, v))

SetOfferOfferCount ==
    /\ msg.t = "OfferMessage"
    /\ \E v \in Inputs("OfferMessage", "OfferCount") : Assign("OfferCount", v, Offer_offer_count(msg, v))

SetRequestActivationTime ==
    /\ msg.t = "RequestMessage"
    /\ \E v \in Inputs("RequestMessage", "ActivationTime") : Assign("ActivationTime", v, Request_activation_time(msg, v))

SetRequestDuration ==
    /\ msg.t = "RequestMessage"
    /\ \E v \in Inputs("RequestMessage", "Duration") : Assign("Duration", v, Request_duration(msg, v))

SetRequestDirection ==
    /\ msg.t = "RequestMessage"
    /\ \E v \in Inputs("RequestMessage", "Direction") : Assign("Direction", v, Request_direction(msg, v))

SetRequestRealPowerMin ==
    /\ msg.t = "RequestMessage"
    /\ \E v \in Inputs("RequestMessage", "RealPowerMin") : Assign("RealPowerMin", v, Request_real_power_min(msg, v))

SetRequestRealPowerRequest ==
    /\ msg.t = "RequestMessage"
    /\ \E v \in Inputs("RequestMessage", "RealPowerRequest") : Assign("RealPowerRequest", v, Request_real_power_request(msg, v))

SetRequestCustomerIds ==
    /\ msg.t = "RequestMessage"
    /\ \E v \in Inputs("RequestMessage", "CustomerIds") : Assign("CustomerIds", v, Request_customer_ids(msg, v))

SetRequestCongestionId ==
    /\ msg.t = "RequestMessage"
    /\ \E v \in Inputs("RequestMessage", "CongestionId") : Assign("CongestionId", v, Request_congestion_id(msg, v))

SetRequestBidResolution ==
    /\ msg.t = "RequestMessage"
    /\ \E v \in Inputs("RequestMessage", "BidResolution") : Assign("BidResolution", v, Request_bid_resolution(msg, v))

SetForecastForecast ==
    /\ msg.t = "ResourceForecastPowerMessage"
    /\ \E v \in Inputs("ResourceForecastPowerMessage", "Forecast") : Assign("Forecast", v, Forecast_real_power(msg, v))

SetForecastResourceName ==
    /\ msg.t = "ResourceForecastPowerMessage"
    /\ \E v \in Inputs("ResourceForecastPowerMessage", "ResourceName") : Assign("ResourceName", v, Forecast_resource_name(msg, v))

\* the objects msg is compared with: itself, and itself after one assignment
Others(self) ==
    {self} \cup
    UNION {{setattr(self, name, v).v :
               v \in {x \in Inputs(self.t, name) : setattr(self, name, x).exc = "none"}} :
           name \in AttributeNames(self.t)}

\* msg == other
Compare ==
    /\ msg.t \in Classes
    /\ \E other \in Others(msg) :
          /\ result' = Outcome("__eq__", "", other, "none", __eq__(msg, other))
          /\ UNCHANGED msg

\* msg.json()
ToJson ==
    /\ msg.t \in Classes
    /\ \E r \in {to_json(msg)} :
          result' = Outcome("to_json", "", None, r.exc, IF r.exc = "none" THEN r.v ELSE None)
    /\ UNCHANGED msg

Init ==
    /\ msg = None
    /\ result = Outcome("start", "", None, "none", None)

Next ==
    \/ Construct
    \/ FromJson
    \/ Dispatch
    \/ SetOfferActivationTime
    \/ SetOfferDuration
    \/ SetOfferDirection
    \/ SetOfferRealPower
    \/ SetOfferPrice
    \/ SetOfferCongestionId
    \/ SetOfferOfferId
    \/ SetOfferOfferCount
    \/ SetRequestActivationTime
    \/ SetRequestDuration
    \/ SetRequestDirection
    \/ SetRequestRealPowerMin
    \/ SetRequestRealPowerRequest
    \/ SetRequestCustomerIds
    \/ SetRequestCongestionId
    \/ SetRequestBidResolution
    \/ SetForecastForecast
    \/ SetForecastResourceName
    \/ Compare
    \/ ToJson

Spec == Init /\ [][Next]_vars

(***************************************************************************)
(* The claims.                                                             *)
(***************************************************************************)
\* the attributes the class declares (the envelope apart)
Declared(cls) == AttributeNames(cls) \ {"envelope"}

\* the checker of the attribute accepts the value
Passes(cls, name, value) ==
    check(cls, name, value).exc = "none" /\ check(cls, name, value).v

AfterSetter(cls, name) ==
    result.call = "setattr" /\ result.attr = name /\ msg.t = cls

\* C1: every record that exists has every non-optional declared field set to
\* a value that passes the field's checker, and a construction (direct or by
\* from_json) given an invalid value for a declared field produces no record.
C1_RecordsFullyValidated ==
    /\ msg.t \in Classes =>
          \A name \in Declared(msg.t) \ OPTIONAL_ATTRIBUTES_FULL(msg.t) :
             msg[name] # Unset /\ Passes(msg.t, name, msg[name])
    /\ (/\ result.call \in {"__init__", "from_json"}
        /\ \E name \in Declared(result.attr) :
              ~Passes(result.attr, name, get(result.arg, name)))
       => msg = None

\* the values the claim C2 lists as rejected
C2_Rejected(v) ==
    \/ v = None
    \/ v = PyList(<< >>)
    \/ v = PyStr(<< >>)
    \/ v.t \notin {"str", "list", "tuple"}
    \/ v.t \in {"list", "tuple"} /\ \E i \in 1..Len(v.items) : v.items[i].t # "str"

\* C2: assigning to RequestMessage CustomerIds a rejected value ([], None, "",
\* a non-string/list/tuple, a sequence with a non-string element) raises a
\* message value error; assigning "c1" or ["c1", "c2"] is accepted.
C2_RejectedCustomerIdsRaise ==
    AfterSetter("RequestMessage", "CustomerIds") =>
       /\ C2_Rejected(result.arg) => result.exc = "MessageValueError"
       /\ result.arg \in {CustomerId(1), PyList(<<CustomerId(1), CustomerId(2)>>)}
             => result.exc = "none" /\ msg.CustomerIds # Unset

\* the ordered list of the customer ids a value names
C3_Normalized(v) == IF v.t = "str" THEN PyList(<<v>>) ELSE PyList(v.items)

\* C3: an accepted CustomerIds value is stored as the ordered list of its ids:
\* a list or tuple as the list of the same ids in the same order, a single id
\* given as a string as the list holding exactly that id.
C3_CustomerIdsNormalized ==
    (AfterSetter("RequestMessage", "CustomerIds") /\ ~C2_Rejected(result.arg))
       => msg.CustomerIds = C3_Normalized(result.arg)

\* C4: two records of one concrete type compare equal if and only if the
\* envelope and every declared field compare equal.
C4_EqualIffAllFieldsEqual ==
    result.call = "__eq__" =>
       (result.ret <=> \A name \in AttributeNames(msg.t) : msg[name] = result.arg[name])

\* the units each quantity attribute of a class may carry in JSON
QuantityUnits(cls, name) ==
    CASE cls = "OfferMessage" /\ name = "Price" -> {"{EUR}/(kW.h)", "{EUR}/(MW.h)"}
      [] cls = "OfferMessage" /\ name = "Duration" -> {"Minute"}
      [] cls = "RequestMessage" /\ name = "Duration" -> {"Minute"}
      [] cls = "RequestMessage" /\ name # "Duration" -> {"kW"}

\* the unit a bare number of the attribute stands for
DefaultUnit(cls, name) ==
    IF name = "Price" THEN "{EUR}/(kW.h)"
    ELSE CHOOSE u \in QuantityUnits(cls, name) : TRUE

QuantityAttributes(cls) ==
    CASE cls = "OfferMessage" -> {"Duration", "Price"}
      [] cls = "RequestMessage" ->
            {"Duration", "RealPowerMin", "RealPowerRequest", "BidResolution"}
      [] cls = "ResourceForecastPowerMessage" -> {}

\* a quantity in JSON: a bare float, or {Value, UnitOfMeasure} with a float
\* and a unit of the attribute, the value not negative
C5_ValidQuantity(cls, name, v) ==
    \/ v.t = "float" /\ v.h >= 0
    \/ v.t = "dict" /\ v.Value.t = "float" /\ v.Value.h >= 0
       /\ v.UnitOfMeasure \in QuantityUnits(cls, name)

C5_ValidId(v) == v.t = "str" /\ Len(v.s) > 0

C5_ValidSeries(v, minimum, names) ==
    /\ v.t = "tsdict"
    /\ Len(v.TimeIndex) >= minimum
    /\ DOMAIN v.Series # {}
    /\ names # {} => DOMAIN v.Series = names
    /\ \A n \in DOMAIN v.Series :
          v.Series[n].unit_of_measure = "kW" /\ Len(v.Series[n].values) = Len(v.TimeIndex)

\* the JSON mapping is a valid message of the class, in canonical form
C5_CanonicalValid(cls, m) ==
    /\ m.envelope \in EnvelopeValues
    /\ \A name \in Declared(cls) :
          CASE name = "ActivationTime" -> m[name] = PyStr(iso1)
            [] name = "BidResolution" ->
                  m[name] = Missing \/ C5_ValidQuantity(cls, name, m[name])
            [] name \in QuantityAttributes(cls) \ {"BidResolution"} ->
                  C5_ValidQuantity(cls, name, m[name])
            [] name = "Direction" -> m[name] \in {PyStr(upregulation), PyStr(downregulation)}
            [] name = "RealPower" -> C5_ValidSeries(m[name], 1, {})
            [] name = "Forecast" -> C5_ValidSeries(m[name], 3, {"RealPower"})
            [] name = "CongestionId" ->
                  IF cls = "OfferMessage" THEN C5_ValidId(m[name]) ELSE m[name].t = "str"
            [] name \in {"OfferId", "ResourceName"} -> C5_ValidId(m[name])
            [] name = "OfferCount" -> m[name].t = "int" /\ m[name].n >= 0
            [] name = "CustomerIds" ->
                  /\ m[name].t = "list" /\ Len(m[name].items) > 0
                  /\ \A i \in 1..Len(m[name].items) : C5_ValidId(m[name].items[i])

\* the mapping with every bare-number quantity given its default unit
C5_UnitsDefaulted(cls, m) ==
    [name \in DOMAIN m |->
        IF name \in QuantityAttributes(cls) /\ m[name].t = "float"
        THEN PyDict(m[name], DefaultUnit(cls, name))
        ELSE m[name]]

\* C5: for every valid JSON mapping m of a concrete type in canonical form
\* (an Offer Price in object form with either allowed unit included),
\* from_json(m) yields a record and from_json(m).to_json() equals m, modulo
\* the unit defaulting of bare-number quantities.
C5_RoundTrip ==
    (result.call = "from_json" /\ C5_CanonicalValid(result.attr, result.arg)) =>
       /\ result.exc = "none"
       /\ msg.t = result.attr
       /\ to_json(msg) = Ok(C5_UnitsDefaulted(result.attr, result.arg))

\* a number or numeric string that is not negative
NonNegativeNumber(v) ==
    v.t \in {"int", "float", "str"} /\ float(v).exc = "none" /\ float(v).v >= 0

\* the inputs the claim C6 says Price accepts
C6_Accepts(v) ==
    \/ NonNegativeNumber(v)
    \/ v.t = "dict" /\ NonNegativeNumber(v.Value)
       /\ v.UnitOfMeasure \in {"{EUR}/(kW.h)", "{EUR}/(MW.h)"}
    \/ v.t = "QuantityBlock" /\ v.value >= 0
       /\ v.unit_of_measure \in {"{EUR}/(kW.h)", "{EUR}/(MW.h)"}

\* C6: OfferMessage Price accepts exactly a bare number or numeric string
\* >= 0, or an explicit quantity >= 0 of unit {EUR}/(kW.h) or {EUR}/(MW.h)
\* given as a {Value, UnitOfMeasure} mapping or as a QuantityBlock; every
\* other input is rejected.
C6_PriceAcceptsExactly ==
    AfterSetter("OfferMessage", "Price") =>
       (result.exc = "none" <=> C6_Accepts(result.arg))

\* the Price an accepted assignment leaves, by the claim C7
C7_Expected(v) ==
    CASE v.t \in {"int", "float", "str"} -> QuantityBlock(float(v).v, "{EUR}/(kW.h)")
      [] v.t = "dict" -> QuantityBlock(float(v.Value).v, v.UnitOfMeasure)
      [] v.t = "QuantityBlock" -> QuantityBlock(v.value, v.unit_of_measure)

\* C7: after any sequence of Price assignments the stored Price is the one
\* of the last successful assignment: a bare number is stored with unit
\* {EUR}/(kW.h), whatever unit was stored before, an explicit QuantityBlock
\* of an allowed unit is accepted and stored with its own unit, and a failed
\* assignment leaves the stored Price.
C7_PriceFollowsLastAssignment ==
    [][(result'.call = "setattr" /\ result'.attr = "Price") =>
          /\ result'.exc = "none" => msg'.Price = C7_Expected(result'.arg)
          /\ result'.exc # "none" => msg'.Price = msg.Price
          /\ (result'.arg.t \in {"int", "float"} /\ float(result'.arg).v >= 0)
                => result'.exc = "none"
          /\ (/\ result'.arg.t = "QuantityBlock" /\ result'.arg.value >= 0
              /\ result'.arg.unit_of_measure \in {"{EUR}/(kW.h)", "{EUR}/(MW.h)"})
                => result'.exc = "none"]_vars

\* an explicit QuantityBlock of 2.0 {EUR}/(MW.h) was assigned and the Price
\* is 2.0 {EUR}/(MW.h)
C7_Witness ==
    /\ AfterSetter("OfferMessage", "Price")
    /\ result.arg = QuantityBlock(2 * MaxValue, "{EUR}/(MW.h)")
    /\ result.exc = "none"
    /\ msg.Price = QuantityBlock(2 * MaxValue, "{EUR}/(MW.h)")

\* C8: for every quantity attribute of one required unit U, assigning a bare
\* number stores a quantity of unit U, and assigning {Value, UnitOfMeasure: W}
\* with W # U fails with a MessageUnitValueError.
C8_WrongUnitIsUnitValueError ==
    (/\ result.call = "setattr"
     /\ result.attr \in QuantityAttributes(msg.t) \ {"Price"})
    => /\ (result.arg.t \in {"int", "float"} /\ float(result.arg).v >= 0)
             => /\ result.exc = "none"
                /\ msg[result.attr] =
                      QuantityBlock(float(result.arg).v, DefaultUnit(msg.t, result.attr))
       /\ (result.arg.t = "dict"
           /\ result.arg.UnitOfMeasure # DefaultUnit(msg.t, result.attr))
             => result.exc = "MessageUnitValueError"

\* the inputs the claim C9 says OfferCount accepts
C9_Accepts(v) ==
    /\ v.t \in {"int", "float", "str"}
    /\ float(v).exc = "none"
    /\ is_integer(float(v).v)
    /\ float(v).v >= 0

\* C9: OfferCount accepts exactly the int, float and numeric string inputs
\* whose value is integral and >= 0 and stores the integer; every other input
\* is rejected with a MessageValueError and no other exception.
C9_OfferCountAcceptsExactly ==
    AfterSetter("OfferMessage", "OfferCount") =>
       IF C9_Accepts(result.arg)
       THEN result.exc = "none" /\ msg.OfferCount = PyInt(float(result.arg).v \div 2)
       ELSE result.exc = "MessageValueError"

\* C10: Direction of OfferMessage and of RequestMessage accepts exactly
\* "upregulation" and "downregulation" and stores the string unchanged; any
\* other value fails with a MessageValueError.
C10_DirectionAcceptsExactly ==
    (result.call = "setattr" /\ result.attr = "Direction") =>
       IF result.arg \in {PyStr(upregulation), PyStr(downregulation)}
       THEN result.exc = "none" /\ msg.Direction = result.arg
       ELSE result.exc = "MessageValueError"

\* "downregulation" was assigned to an Offer and is stored
C10_Witness ==
    /\ AfterSetter("OfferMessage", "Direction")
    /\ result.arg = PyStr(downregulation)
    /\ result.exc = "none"
    /\ msg.Direction = PyStr(downregulation)

\* the time index and the series of a time series input
C11_TimeIndex(v) == IF v.t = "tsdict" THEN v.TimeIndex ELSE v.time_index
C11_Series(v) == IF v.t = "tsdict" THEN v.Series ELSE v.series

\* the input is a time series block: every series as long as the time index
C11_IsBlock(v) ==
    /\ v.t \in {"TimeSeriesBlock", "tsdict"}
    /\ \A name \in DOMAIN C11_Series(v) :
          Len(C11_Series(v)[name].values) = Len(C11_TimeIndex(v))

\* >= 1 timestamp, >= 1 series, every series in kW
C11_OfferAccepts(v) ==
    /\ C11_IsBlock(v)
    /\ Len(C11_TimeIndex(v)) >= 1
    /\ DOMAIN C11_Series(v) # {}
    /\ \A name \in DOMAIN C11_Series(v) : C11_Series(v)[name].unit_of_measure = "kW"

\* exactly one series, named RealPower, in kW, >= 3 timestamps and values
C11_ForecastAccepts(v) ==
    /\ C11_IsBlock(v)
    /\ DOMAIN C11_Series(v) = {"RealPower"}
    /\ C11_Series(v)["RealPower"].unit_of_measure = "kW"
    /\ Len(C11_TimeIndex(v)) >= 3
    /\ Len(C11_Series(v)["RealPower"].values) >= 3

\* C11: Offer RealPower is accepted iff the block has >= 1 timestamp, >= 1
\* series and every series has unit kW; Forecast of ResourceForecastPower
\* is accepted iff the block has exactly one series, named RealPower, in kW,
\* with >= 3 timestamps and >= 3 values (so 2 timestamps fail and 3 succeed);
\* an accepted block is stored, a rejected one raises a MessageValueError,
\* in an assignment and in a construction.
C11_TimeSeriesAcceptance ==
    /\ AfterSetter("OfferMessage", "RealPower") =>
          IF C11_OfferAccepts(result.arg)
          THEN /\ result.exc = "none"
               /\ msg.RealPower.time_index = C11_TimeIndex(result.arg)
               /\ msg.RealPower.series = C11_Series(result.arg)
          ELSE result.exc = "MessageValueError"
    /\ AfterSetter("ResourceForecastPowerMessage", "Forecast") =>
          IF C11_ForecastAccepts(result.arg)
          THEN /\ result.exc = "none"
               /\ msg.Forecast.time_index = C11_TimeIndex(result.arg)
               /\ msg.Forecast.series = C11_Series(result.arg)
          ELSE result.exc = "MessageValueError"
    /\ (result.call = "__init__" /\ result.attr = "ResourceForecastPowerMessage") =>
          IF C11_ForecastAccepts(get(result.arg, "Forecast"))
          THEN result.exc = "none" => msg.Forecast.series = C11_Series(result.arg.Forecast)
          ELSE result.exc = "MessageValueError" /\ msg = None
    /\ (result.call = "__init__" /\ result.attr = "OfferMessage") =>
          IF C11_OfferAccepts(get(result.arg, "RealPower"))
          THEN result.exc = "none" => msg.RealPower.series = C11_Series(result.arg.RealPower)
          ELSE result.exc = "MessageValueError" /\ msg = None

\* a Forecast of exactly 3 timestamps, one RealPower series in kW, was
\* assigned and is stored
C11_Witness ==
    /\ AfterSetter("ResourceForecastPowerMessage", "Forecast")
    /\ result.arg.t = "TimeSeriesBlock"
    /\ Len(result.arg.time_index) = 3
    /\ result.exc = "none"
    /\ msg.Forecast = result.arg

\* a Forecast of 2 timestamps was assigned and rejected
C11_WitnessRejected ==
    /\ AfterSetter("ResourceForecastPowerMessage", "Forecast")
    /\ result.arg.t = "TimeSeriesBlock"
    /\ Len(result.arg.time_index) = 2
    /\ result.exc = "MessageValueError"

\* a non-empty string
C12_Accepts(v) == v.t = "str" /\ v.s # << >>

\* C12: ResourceName of ResourceForecastPowerMessage accepts exactly the
\* non-empty strings and stores them; assigning the empty string or a value
\* that is no string raises a MessageValueError and leaves the stored name.
C12_ResourceNameNonEmpty ==
    [][(/\ result'.call = "setattr" /\ result'.attr = "ResourceName"
        /\ msg.t = "ResourceForecastPowerMessage") =>
          IF C12_Accepts(result'.arg)
          THEN result'.exc = "none" /\ msg'.ResourceName = result'.arg
          ELSE /\ result'.exc = "MessageValueError"
               /\ msg'.ResourceName = msg.ResourceName]_vars

\* the mapping validates for the class: every key that is not optional is
\* there and every value passes the checker of its attribute
C13_Validates(cls, m) ==
    \A name \in AttributeNames(cls) :
       /\ m[name] = Missing => name \in OPTIONAL_ATTRIBUTES_FULL(cls)
       /\ Passes(cls, name, get(m, name))

\* what from_json of the class owes for the mapping of the last call
C13_FromJsonOf(cls) ==
    /\ result.exc = "none"
    /\ IF C13_Validates(cls, result.arg)
       THEN msg.t = cls /\ result.ret = msg
       ELSE msg = None /\ result.ret = None

\* C13: from_json of each class returns a record of that class when the
\* mapping validates and None, with no exception escaping, when it does not;
\* the three classes register under pairwise distinct discriminators, so a
\* dispatch on Type builds the record of the class registered for the Type
\* (an OfferMessage for "Offer") and no record for an unknown Type.
C13_FromJsonRecordOrNone ==
    /\ \A c1 \in Classes : \A c2 \in Classes \ {c1} :
          CLASS_MESSAGE_TYPE(c1) # CLASS_MESSAGE_TYPE(c2)
    /\ MESSAGE_TYPES["Offer"] = "OfferMessage"
    /\ result.call = "from_json" => C13_FromJsonOf(result.attr)
    /\ result.call = "message_from_json" =>
          IF result.attr = UnknownType
          THEN result.exc = "none" /\ msg = None /\ result.ret = None
          ELSE \E cls \in Classes :
                  CLASS_MESSAGE_TYPE(cls) = result.attr /\ C13_FromJsonOf(cls)

\* the number of halves of a quantity input, whatever its form
C14_Value(v) ==
    CASE v.t = "QuantityBlock" -> v.value
      [] v.t = "dict" -> float(v.Value).v
      [] OTHER -> float(v).v

\* a number or numeric string, or a quantity in kW
C14_InKW(v) ==
    CASE v.t = "QuantityBlock" -> v.unit_of_measure = "kW"
      [] v.t = "dict" -> v.UnitOfMeasure = "kW" /\ float(v.Value).exc = "none"
      [] v.t \in {"int", "float", "str"} -> float(v).exc = "none"
      [] OTHER -> FALSE

\* C14: BidResolution of RequestMessage is optional: assigning None is
\* accepted and leaves the field None, a Request built without BidResolution
\* is a record with the field None, a quantity >= 0 in kW is accepted and
\* stored, and a negative value raises a MessageValueError.
C14_BidResolutionOptional ==
    /\ AfterSetter("RequestMessage", "BidResolution") =>
          /\ result.arg = None => result.exc = "none" /\ msg.BidResolution = None
          /\ (C14_InKW(result.arg) /\ C14_Value(result.arg) >= 0) =>
                /\ result.exc = "none"
                /\ msg.BidResolution = QuantityBlock(C14_Value(result.arg), "kW")
          /\ (C14_InKW(result.arg) /\ C14_Value(result.arg) < 0) =>
                result.exc = "MessageValueError"
    /\ (/\ result.call \in {"__init__", "from_json", "message_from_json"}
        /\ result.attr \in {"RequestMessage", "Request"}
        /\ result.arg = Example("RequestMessage"))
       => result.exc = "none" /\ msg.t = "RequestMessage" /\ msg.BidResolution = None

\* None was assigned to the BidResolution of a Request and the field is None
C14_Witness ==
    /\ AfterSetter("RequestMessage", "BidResolution")
    /\ result.arg = None
    /\ result.exc = "none"
    /\ msg.BidResolution = None

\* a Request was built from a mapping without BidResolution
C14_WitnessBuiltWithout ==
    /\ result.call = "from_json"
    /\ result.attr = "RequestMessage"
    /\ result.arg.BidResolution = Missing
    /\ msg.t = "RequestMessage"
    /\ msg.BidResolution = None

\* the assignment of the step was rejected: it raised, or the checker of
\* the attribute does not accept the value
C15_Rejected(cls) ==
    \/ result'.exc # "none"
    \/ ~Passes(cls, result'.attr, result'.arg)

\* C15: on a constructed record a setter call whose value is rejected
\* changes no field (the assigned field keeps its value, the others too),
\* and a successful setter call changes only its own field.
C15_SetterFrame ==
    [][(result'.call = "setattr" /\ msg.t \in Classes) =>
          /\ msg'.t = msg.t
          /\ \A name \in AttributeNames(msg.t) \ {result'.attr} : msg'[name] = msg[name]
          /\ C15_Rejected(msg.t) => msg' = msg]_vars

\* a negative BidResolution was assigned to a Request and rejected, and the
\* field is None as it was
C15_Witness ==
    /\ AfterSetter("RequestMessage", "BidResolution")
    /\ result.arg = PyFloat(-2)
    /\ result.exc = "MessageValueError"
    /\ msg.BidResolution = None

\* a Price was assigned to an Offer and stored, the Direction being the one
\* assigned before construction ended
C15_WitnessAccepted ==
    /\ AfterSetter("OfferMessage", "Price")
    /\ result.exc = "none"
    /\ msg.Price = QuantityBlock(0, "{EUR}/(kW.h)")
    /\ msg.Direction = PyStr(upregulation)

====
